---- MODULE Spec2Model ----
(***************************************************************************)
(* Lane-traversal path planner of src/test3.py                             *)
(* (generate_fixed_path_optimized) and the shared committer                *)
(* _commit_point_to_path with its process-wide SOWN_SEGMENTS_LOG.          *)
(*                                                                         *)
(* A planning call is modelled phase by phase.  Every phase of the code    *)
(* issues a sequence of _commit calls that depends only on the arguments   *)
(* and on (curr_ln_x, curr_ln_y); the phase action computes that sequence  *)
(* into `pending` and CommitStep executes the calls one at a time, so the  *)
(* lists are observable after every single commit.                         *)
(***************************************************************************)
EXTENDS Integers, Sequences, FiniteSets, TLC

\* ---------------------------------------------------------------- bounds
MaxLaneX == 4
MaxLaneY == 3
MaxGap == 2
MaxRuns == 2
MaxListLen == 3
MaxDirectLen == 2
MaxRover == 2
MaxSweepLen == 5

\* ------------------------------------------------------------- variables
VARIABLES
    farm_width_m,        \* what main() reads from the user
    farm_breadth_m,
    rover_width_m,
    rover_length_m,
    n_inner_x_sweeps,    \* arguments of generate_fixed_path_optimized
    max_lane_idx_x,
    max_lane_idx_y,
    exit_point_lanes,
    is_corner_exit,
    gap_size,
    pc,                  \* position of the planning call
    pending,             \* _commit calls of the current phase not yet made
    points_lanes,        \* _points_lanes
    sow_flags,           \* _sow_flags
    curr_ln_x,
    curr_ln_y,
    lanes_to_sweep_x,
    sweep_i,             \* loop index i of the inner-sweep loop (0-based)
    SOWN_SEGMENTS_LOG,   \* the module-level set
    points_list,         \* lists handed to direct _commit_point_to_path calls
    sow_flags_list,
    runs,                \* planner calls made so far in this process
    results,             \* what those calls returned, in order
    log_at_call,         \* SOWN_SEGMENTS_LOG as the latest call found it
    sweep_call,          \* the latest _commit_partial_vertical_sweep call
    arg_change,          \* what the caller changed between two planner calls
    b_choice,            \* locals of get_user_defined_exit_lanes
    ex_l,
    ey_l,
    row_sequence         \* labels analyze_optimized_path_sequence returned

fieldvars == <<farm_width_m, farm_breadth_m, rover_width_m, rover_length_m>>
argvars == <<n_inner_x_sweeps, max_lane_idx_x, max_lane_idx_y,
             exit_point_lanes, is_corner_exit, gap_size>>
planvars == <<pc, pending, points_lanes, sow_flags, curr_ln_x, curr_ln_y,
              lanes_to_sweep_x, sweep_i>>
extvars == <<points_list, sow_flags_list>>
histvars == <<runs, results, log_at_call>>
uservars == <<arg_change, b_choice, ex_l, ey_l, row_sequence>>
vars == <<fieldvars, argvars, planvars, SOWN_SEGMENTS_LOG, extvars, histvars,
          sweep_call, uservars>>

\* --------------------------------------------------------------- helpers
Abs(a) == IF a < 0 THEN -a ELSE a
Max(a, b) == IF a >= b THEN a ELSE b
Min(a, b) == IF a <= b THEN a ELSE b

\* max(0, min(max_lane_idx_y, y))
ClampY(y, my) == Max(0, Min(my, y))

\* frozenset({previous_lane_point, new_lane_point})
SegmentOf(p, q) == {p, q}

\* A _commit call: the point, the sow request and the context label.
Op(pt, sow, ctx) == [pt |-> pt, sow |-> sow, ctx |-> ctx]

When(c, ops) == IF c THEN ops ELSE << >>

\* ------------------------------------------- the planner's inner _commit
\* generate_fixed_path_optimized._commit: first point is the origin and gets
\* no flag; a point equal to the last one is dropped; otherwise the point is
\* appended together with the requested flag.
\* Mutant of CommitPoints: the duplicate test looks at the whole list
\* (`new_ln_pt in _points_lanes`) instead of at its last element.
CommitPointsAnywhere(pts, new_ln_pt) ==
    IF pts = << >> THEN <<new_ln_pt>>
    ELSE IF \E k \in 1 .. Len(pts) : pts[k] = new_ln_pt THEN pts
    ELSE Append(pts, new_ln_pt)

\* Mutant of CommitPoints: the test for a zero-length move is missing.
CommitPointsNoZeroLengthTest(pts, new_ln_pt) ==
    IF pts = << >> THEN <<new_ln_pt>>
    ELSE Append(pts, new_ln_pt)

CommitPoints(pts, new_ln_pt) ==
    IF pts = << >> THEN <<new_ln_pt>>
    ELSE IF pts[Len(pts)] = new_ln_pt THEN pts
    ELSE Append(pts, new_ln_pt)

\* Mutant of CommitFlags: the zero-length move is not returned early for the
\* flag list, so a dropped point still records a flag.
CommitFlagsNoEarlyReturn(pts, flags, new_ln_pt, sow_req) ==
    IF pts = << >> THEN flags
    ELSE Append(flags, sow_req)

CommitFlags(pts, flags, new_ln_pt, sow_req) ==
    IF pts = << >> THEN flags
    ELSE IF pts[Len(pts)] = new_ln_pt THEN flags
    ELSE Append(flags, sow_req)

\* ---------------------------------------------------------- start choice
\* first_inner_lane_x / last_inner_lane_x
FirstInnerLaneX(mx) == IF mx >= 2 THEN 1 ELSE 0
LastInnerLaneX(mx) == IF mx >= 2 THEN mx - 1 ELSE mx

HasInner(n, mx) == n > 0 /\ FirstInnerLaneX(mx) <= LastInnerLaneX(mx)

\* Mutant of StartSweepLaneX: the start lane is the inner lane nearer to the
\* exit instead of the farther one.
StartSweepLaneXNearest(n, mx, ex) ==
    IF HasInner(n, mx)
    THEN IF ex = 0 THEN FirstInnerLaneX(mx)
         ELSE IF ex = mx THEN LastInnerLaneX(mx)
         ELSE IF Abs(ex - FirstInnerLaneX(mx)) > Abs(ex - LastInnerLaneX(mx))
              THEN LastInnerLaneX(mx)
              ELSE FirstInnerLaneX(mx)
    ELSE IF 2 * ex > mx THEN 0 ELSE mx

\* Mutant of StartSweepLaneX: for an exit on the top or bottom row the
\* sweeps always start on the leftmost inner lane.
StartSweepLaneXLeftmost(n, mx, ex) ==
    IF HasInner(n, mx)
    THEN IF ex = 0 THEN LastInnerLaneX(mx)
         ELSE FirstInnerLaneX(mx)
    ELSE IF 2 * ex > mx THEN 0 ELSE mx

\* start_sweep_lane_x
StartSweepLaneX(n, mx, ex) ==
    IF HasInner(n, mx)
    THEN IF ex = 0 THEN LastInnerLaneX(mx)
         ELSE IF ex = mx THEN FirstInnerLaneX(mx)
         ELSE IF Abs(ex - FirstInnerLaneX(mx)) > Abs(ex - LastInnerLaneX(mx))
              THEN FirstInnerLaneX(mx)
              ELSE LastInnerLaneX(mx)
    ELSE IF 2 * ex > mx THEN 0 ELSE mx

\* Mutant of StartLaneY: the top row is taken to be the row count instead of
\* the largest row index.
StartLaneYRowCount(my, ey) ==
    IF ey = 0 THEN my + 1
    ELSE IF ey = my THEN 0
    ELSE IF Abs(ey - my) < Abs(ey - 0) THEN 0 ELSE my + 1

\* Mutant of StartLaneY: for a side exit the start row is the extreme nearer
\* to the exit (the comparison is reversed).
StartLaneYNearer(my, ey) ==
    IF ey = 0 THEN my
    ELSE IF ey = my THEN 0
    ELSE IF Abs(ey - my) > Abs(ey - 0) THEN 0 ELSE my

\* b_start_lane_y
StartLaneY(my, ey) ==
    IF ey = 0 THEN my
    ELSE IF ey = my THEN 0
    ELSE IF Abs(ey - my) < Abs(ey - 0) THEN 0 ELSE my

\* list.sort(key=lambda x: abs(x - start)) on an ascending list: a stable
\* sort, so equal keys keep ascending order.
RECURSIVE SortByDistance(_, _)
SortByDistance(S, start) ==
    IF S = {} THEN << >>
    ELSE LET best == CHOOSE x \in S : \A y \in S :
                        \/ Abs(x - start) < Abs(y - start)
                        \/ (Abs(x - start) = Abs(y - start) /\ x <= y)
         IN <<best>> \o SortByDistance(S \ {best}, start)

\* Mutant of LanesToSweepX: the slice of the remaining lanes is one short
\* (`remaining_lanes[:available_inner_lanes-2]`).
LanesToSweepXShort(n, mx, ex) ==
    IF HasInner(n, mx)
    THEN LET all_inner == FirstInnerLaneX(mx) .. LastInnerLaneX(mx)
             available == Min(Cardinality(all_inner), n)
             start == StartSweepLaneX(n, mx, ex)
             remaining == SortByDistance(all_inner \ {start}, start)
         IN IF available = 1 THEN <<start>>
            ELSE IF available > 1
                 THEN <<start>> \o SubSeq(remaining, 1, available - 2)
                 ELSE << >>
    ELSE << >>

\* Mutant of LanesToSweepX: the remaining lanes are not sorted by distance
\* from the start lane and stay in ascending order.
LanesToSweepXUnsorted(n, mx, ex) ==
    IF HasInner(n, mx)
    THEN LET all_inner == FirstInnerLaneX(mx) .. LastInnerLaneX(mx)
             available == Min(Cardinality(all_inner), n)
             start == StartSweepLaneX(n, mx, ex)
             remaining == SortByDistance(all_inner \ {start}, 0)
         IN IF available = 1 THEN <<start>>
            ELSE IF available > 1
                 THEN <<start>> \o SubSeq(remaining, 1, available - 1)
                 ELSE << >>
    ELSE << >>

\* lanes_to_sweep_x
LanesToSweepX(n, mx, ex) ==
    IF HasInner(n, mx)
    THEN LET all_inner == FirstInnerLaneX(mx) .. LastInnerLaneX(mx)
             available == Min(Cardinality(all_inner), n)
             start == StartSweepLaneX(n, mx, ex)
             remaining == SortByDistance(all_inner \ {start}, start)
         IN IF available = 1 THEN <<start>>
            ELSE IF available > 1
                 THEN <<start>> \o SubSeq(remaining, 1, available - 1)
                 ELSE << >>
    ELSE << >>

\* initial_pos_lane_x
InitialPosLaneX(n, mx, ex) ==
    IF LanesToSweepX(n, mx, ex) # << >>
    THEN StartSweepLaneX(n, mx, ex)
    ELSE IF 2 * ex > mx THEN 0 ELSE mx


\* ------------------------------------------------------ inner-sweep loop
\* Mutant of SowDistance: the factor is 0.07 instead of 0.7.
SowDistanceSevenPercent(total_distance) == (7 * total_distance) \div 100

\* int(total_distance * 0.7); the double product truncates to the same
\* integer as floor(7 * d / 10) for every d below 90.
SowDistance(total_distance) == (7 * total_distance) \div 10

\* The last VRow with the exit on the top or bottom boundary
\* ("smart transition"): the _commit calls of the sweep from (x, y).
SmartTransitionOps(x, y, target_ln_y, my, gap) ==
    LET direction == IF target_ln_y > y THEN 1 ELSE -1
        total_distance == Abs(target_ln_y - y)
        gap_end_y == ClampY(y + gap * direction, my)
        sow_end_y == ClampY(gap_end_y + SowDistance(total_distance) * direction, my)
    IN IF total_distance <= gap * 2
       THEN <<Op(<<x, target_ln_y>>, FALSE, "SmartTransition_TooShort")>>
       ELSE When(gap_end_y # y,
                 <<Op(<<x, gap_end_y>>, FALSE, "SmartTransition_InitialGap")>>)
            \o When(sow_end_y # gap_end_y,
                 <<Op(<<x, sow_end_y>>, TRUE, "SmartTransition_MainSow")>>)
            \o When(sow_end_y # target_ln_y,
                 <<Op(<<x, target_ln_y>>, FALSE, "SmartTransition_FinalPosition")>>)

\* Mutant of RegularSweepOps: the sown part runs to the end of the sweep and
\* no final gap is left.
RegularSweepOpsNoFinalGap(k, x, y, target_ln_y, my, gap) ==
    LET direction == IF target_ln_y > y THEN 1 ELSE -1
        total_distance == Abs(target_ln_y - y)
        gap_start_y == ClampY(y + gap * direction, my)
        label == "VRow" \o ToString(k)
    IN IF total_distance <= 2 * gap
       THEN <<Op(<<x, target_ln_y>>, TRUE, label \o "_FullSow")>>
       ELSE When(gap_start_y # y,
                 <<Op(<<x, gap_start_y>>, FALSE, label \o "_InitialGap")>>)
            \o <<Op(<<x, target_ln_y>>, TRUE, label \o "_MainSow")>>

\* Mutant of RegularSweepOps: the test for a short sweep is strict
\* (`total_distance < 2 * gap_size`).
RegularSweepOpsStrictTest(k, x, y, target_ln_y, my, gap) ==
    LET direction == IF target_ln_y > y THEN 1 ELSE -1
        total_distance == Abs(target_ln_y - y)
        gap_start_y == ClampY(y + gap * direction, my)
        sow_end_y == ClampY(target_ln_y - gap * direction, my)
        label == "VRow" \o ToString(k)
    IN IF total_distance < 2 * gap
       THEN <<Op(<<x, target_ln_y>>, TRUE, label \o "_FullSow")>>
       ELSE When(gap_start_y # y,
                 <<Op(<<x, gap_start_y>>, FALSE, label \o "_InitialGap")>>)
            \o When(sow_end_y # gap_start_y,
                 <<Op(<<x, sow_end_y>>, TRUE, label \o "_MainSow")>>)
            \o When(sow_end_y # target_ln_y,
                 <<Op(<<x, target_ln_y>>, FALSE, label \o "_FinalGap")>>)

\* A regular inner sweep: the _commit calls of the sweep from (x, y).
RegularSweepOps(k, x, y, target_ln_y, my, gap) ==
    LET direction == IF target_ln_y > y THEN 1 ELSE -1
        total_distance == Abs(target_ln_y - y)
        gap_start_y == ClampY(y + gap * direction, my)
        sow_end_y == ClampY(target_ln_y - gap * direction, my)
        label == "VRow" \o ToString(k)
    IN IF total_distance <= 2 * gap
       THEN <<Op(<<x, target_ln_y>>, TRUE, label \o "_FullSow")>>
       ELSE When(gap_start_y # y,
                 <<Op(<<x, gap_start_y>>, FALSE, label \o "_InitialGap")>>)
            \o When(sow_end_y # gap_start_y,
                 <<Op(<<x, sow_end_y>>, TRUE, label \o "_MainSow")>>)
            \o When(sow_end_y # target_ln_y,
                 <<Op(<<x, target_ln_y>>, FALSE, label \o "_FinalGap")>>)

\* turn_target_x after the last VRow when the exit is on top/bottom.
TurnTargetX(x, mx, ex) ==
    IF ex < x THEN Max(0, x - 1)
    ELSE IF ex > x THEN Min(mx, x + 1)
    ELSE IF 2 * x <= mx THEN Max(0, x - 1)
    ELSE Min(mx, x + 1)

\* Mutant of TransitionOps: the move to the next lane is committed with the
\* y the sweep started from instead of the y it ended on.
TransitionOpsStaleY(k, lanes, x, y, mx, my, ex, ey) ==
    IF k < Len(lanes)
    THEN When(x # lanes[k + 1],
              <<Op(<<lanes[k + 1], IF y = my THEN 0 ELSE my>>, FALSE,
                   "TransitionToVRow" \o ToString(k + 1))>>)
    ELSE IF ey = 0 \/ ey = my
         THEN When(TurnTargetX(x, mx, ex) # x,
                   <<Op(<<TurnTargetX(x, mx, ex), y>>, FALSE, "TurnTowardsExit")>>)
         ELSE << >>

\* The horizontal move that follows sweep k (1-based) at (x, y).
TransitionOps(k, lanes, x, y, mx, my, ex, ey) ==
    IF k < Len(lanes)
    THEN When(x # lanes[k + 1],
              <<Op(<<lanes[k + 1], y>>, FALSE,
                   "TransitionToVRow" \o ToString(k + 1))>>)
    ELSE IF ey = 0 \/ ey = my
         THEN When(TurnTargetX(x, mx, ex) # x,
                   <<Op(<<TurnTargetX(x, mx, ex), y>>, FALSE, "TurnTowardsExit")>>)
         ELSE << >>

\* One iteration of `for i, sweep_ln_x in enumerate(lanes_to_sweep_x)`,
\* k = i + 1, entered at (cx, cy).
InnerSweepOps(k, lanes, cx, cy, mx, my, ex, ey, gap) ==
    LET sweep_ln_x == lanes[k]
        target_ln_y == IF cy = my THEN 0 ELSE my
        is_last_vrow == (k = Len(lanes))
    IN When(cx # sweep_ln_x,
            <<Op(<<sweep_ln_x, cy>>, FALSE, "MoveToVRow" \o ToString(k))>>)
       \o (IF is_last_vrow /\ (ey = 0 \/ ey = my)
           THEN SmartTransitionOps(sweep_ln_x, cy, target_ln_y, my, gap)
           ELSE RegularSweepOps(k, sweep_ln_x, cy, target_ln_y, my, gap))
       \o TransitionOps(k, lanes, sweep_ln_x, target_ln_y, mx, my, ex, ey)


\* ---------------------------------------------------- boundary coverage
\* Exit on the top/bottom boundary, current position to one side of the
\* exit (or aligned with it): `near` is the vertical boundary visited first
\* and `far` the other one.  toward = 1 when the horizontal sweeps run from
\* x = 0 to x = max (near = 0), -1 in the mirrored branch.
HorizontalExitSideOps(cx, cy, mx, my, ex, ey, near, far) ==
    LET opposite_y == IF cy = my THEN 0 ELSE my
        toNear == IF near = 0 THEN "BoundaryToLeft" ELSE "BoundaryToRight"
        toFar == IF far = 0 THEN "BoundaryToLeft" ELSE "BoundaryToRight"
        nearVertical == IF near = 0 THEN "BoundaryLeftVertical"
                        ELSE "BoundaryRightVertical"
        horizontal == IF far = 0 THEN "BoundaryHorizontalToLeft"
                      ELSE "BoundaryHorizontalToRight"
        farToLevel == IF far = 0 THEN "BoundaryLeftToExitLevel"
                      ELSE "BoundaryRightToExitLevel"
        near_exit_x == IF near = 0 THEN ex - 1 ELSE ex + 1
    IN When(cx # near, <<Op(<<near, cy>>, TRUE, toNear)>>)
       \o When(cy # opposite_y, <<Op(<<near, opposite_y>>, TRUE, nearVertical)>>)
       \o (IF opposite_y = ey
           THEN When(ex # near,
                     <<Op(<<near_exit_x, opposite_y>>, TRUE, "BoundaryToNearExit")>>)
                \o <<Op(<<ex, opposite_y>>, FALSE, "BoundaryToExit")>>
                \o When(ex # far, <<Op(<<far, opposite_y>>, TRUE, toFar)>>)
           ELSE <<Op(<<far, opposite_y>>, TRUE, horizontal)>>)
       \o When(opposite_y # ey, <<Op(<<far, ey>>, TRUE, farToLevel)>>)
       \o When(far # ex, <<Op(<<ex, ey>>, TRUE, "BoundaryFinalToExit")>>)

\* Exit on the top/bottom boundary and curr_ln_x == ex_ln_x.
HorizontalExitAlignedOps(cx, cy, mx, my, ex, ey, near, far) ==
    LET opposite_y == IF cy = my THEN 0 ELSE my
        toNear == IF near = 0 THEN "BoundaryToLeft" ELSE "BoundaryToRight"
        nearVertical == IF near = 0 THEN "BoundaryLeftVertical"
                        ELSE "BoundaryRightVertical"
        horizontal == IF far = 0 THEN "BoundaryHorizontalToLeft"
                      ELSE "BoundaryHorizontalToRight"
        farToLevel == IF far = 0 THEN "BoundaryLeftToExitLevel"
                      ELSE "BoundaryRightToExitLevel"
    IN When(cx # near, <<Op(<<near, cy>>, TRUE, toNear)>>)
       \o When(cy # opposite_y, <<Op(<<near, opposite_y>>, TRUE, nearVertical)>>)
       \o <<Op(<<far, opposite_y>>, TRUE, horizontal)>>
       \o When(opposite_y # ey, <<Op(<<far, ey>>, TRUE, farToLevel)>>)
       \o When(far # ex, <<Op(<<ex, ey>>, TRUE, "BoundaryFinalToExit")>>)

\* Exit on the left/right boundary (and not on the top/bottom one).
VerticalExitOps(cx, cy, mx, my, ex, ey) ==
    LET opposite_boundary_x == IF ex = 0 THEN mx ELSE 0
        target_ln_y == IF cy = my THEN 0 ELSE my
        opposite_y == IF target_ln_y = my THEN 0 ELSE my
        near_exit_y == ClampY(IF ey > 0 THEN ey - 1 ELSE ey + 1, my)
        y_after == IF target_ln_y # opposite_y
                   THEN (IF opposite_y = ey THEN ey ELSE opposite_y)
                   ELSE target_ln_y
    IN When(cx # opposite_boundary_x,
            <<Op(<<opposite_boundary_x, cy>>, TRUE,
                 "BoundaryToOpposite_x" \o ToString(opposite_boundary_x))>>)
       \o When(cy # target_ln_y,
            <<Op(<<opposite_boundary_x, target_ln_y>>, TRUE, "BoundaryOppositeVertical")>>)
       \o When(opposite_boundary_x # ex,
            <<Op(<<ex, target_ln_y>>, TRUE,
                 "BoundaryHorizontalToExit_x" \o ToString(ex))>>)
       \o When(target_ln_y # opposite_y,
            IF opposite_y = ey
            THEN When(near_exit_y # target_ln_y,
                      <<Op(<<ex, near_exit_y>>, TRUE, "BoundaryToNearExitY")>>)
                 \o <<Op(<<ex, ey>>, FALSE, "BoundaryToExitY")>>
            ELSE <<Op(<<ex, opposite_y>>, TRUE, "BoundaryExitVertical")>>)
       \o When(y_after # ey, <<Op(<<ex, ey>>, TRUE, "BoundaryFinalToExitY")>>)

\* Mutant of BoundaryOps: the horizontal boundary sweeps stop at the exit
\* column instead of running to the far vertical boundary.
BoundaryOpsStopAtExit(cx, cy, mx, my, ex, ey) ==
    IF ey = 0 \/ ey = my
    THEN IF cx < ex THEN HorizontalExitSideOps(cx, cy, mx, my, ex, ey, 0, ex)
         ELSE IF cx > ex THEN HorizontalExitSideOps(cx, cy, mx, my, ex, ey, mx, ex)
         ELSE IF 2 * cx <= mx
              THEN HorizontalExitAlignedOps(cx, cy, mx, my, ex, ey, 0, ex)
              ELSE HorizontalExitAlignedOps(cx, cy, mx, my, ex, ey, mx, ex)
    ELSE IF ex = 0 \/ ex = mx THEN VerticalExitOps(cx, cy, mx, my, ex, ey)
    ELSE << >>

\* Mutant of BoundaryOps: the case table has no branch for an exit on the
\* left or right boundary.
BoundaryOpsTopBottomOnly(cx, cy, mx, my, ex, ey) ==
    IF ey = 0 \/ ey = my
    THEN IF cx < ex THEN HorizontalExitSideOps(cx, cy, mx, my, ex, ey, 0, mx)
         ELSE IF cx > ex THEN HorizontalExitSideOps(cx, cy, mx, my, ex, ey, mx, 0)
         ELSE IF 2 * cx <= mx
              THEN HorizontalExitAlignedOps(cx, cy, mx, my, ex, ey, 0, mx)
              ELSE HorizontalExitAlignedOps(cx, cy, mx, my, ex, ey, mx, 0)
    ELSE << >>

\* The whole case table, entered at (cx, cy).
BoundaryOps(cx, cy, mx, my, ex, ey) ==
    IF ey = 0 \/ ey = my
    THEN IF cx < ex THEN HorizontalExitSideOps(cx, cy, mx, my, ex, ey, 0, mx)
         ELSE IF cx > ex THEN HorizontalExitSideOps(cx, cy, mx, my, ex, ey, mx, 0)
         ELSE IF 2 * cx <= mx
              THEN HorizontalExitAlignedOps(cx, cy, mx, my, ex, ey, 0, mx)
              ELSE HorizontalExitAlignedOps(cx, cy, mx, my, ex, ey, mx, 0)
    ELSE IF ex = 0 \/ ex = mx THEN VerticalExitOps(cx, cy, mx, my, ex, ey)
    ELSE << >>

\* `if not _points_lanes or _points_lanes[-1] != exit_point_lanes`
ExitApproachOps(pts, exit) ==
    IF pts = << >> \/ pts[Len(pts)] # exit
    THEN <<Op(exit, FALSE, "FinalExitPosition")>>
    ELSE << >>


\* ------------------------------------------------- the shared committer
\* Context labels of _commit_point_to_path: the default, the label of the
\* sown phase of _commit_partial_vertical_sweep, and the label
\* f"AHLCE {segment_label} Case 3" for a caller's segment_label "Boundary";
\* and the test `"Boundary" in context` on them.
Contexts == {"", "PartialSweep_Phase2_Sown", "AHLCE Boundary Case 3"}
ContainsBoundary(context) == context \in {"AHLCE Boundary Case 3"}

\* actual_sow_flag_for_this_segment
ActualSowFlag(segment, sow_flag_requested, context, log) ==
    IF sow_flag_requested
    THEN IF ContainsBoundary(context) THEN TRUE
         ELSE segment \notin log
    ELSE FALSE

\* SOWN_SEGMENTS_LOG after the call
LogAfterCommit(segment, sow_flag_requested, context, log) ==
    IF sow_flag_requested /\ ~ContainsBoundary(context) /\ segment \notin log
    THEN log \cup {segment}
    ELSE log

\* _commit_point_to_path(points_list_lanes, sow_flags_list, new_lane_point,
\*                       sow_flag_requested, context)
CommitPointToPath(new_lane_point, sow_flag_requested, context) ==
    IF points_list = << >>
    THEN /\ points_list' = <<new_lane_point>>
         /\ UNCHANGED <<sow_flags_list, SOWN_SEGMENTS_LOG>>
    ELSE IF points_list[Len(points_list)] = new_lane_point
    THEN UNCHANGED <<points_list, sow_flags_list, SOWN_SEGMENTS_LOG>>
    ELSE LET current_segment ==
                 SegmentOf(points_list[Len(points_list)], new_lane_point)
         IN /\ points_list' = Append(points_list, new_lane_point)
            /\ sow_flags_list' = Append(sow_flags_list,
                   ActualSowFlag(current_segment, sow_flag_requested,
                                 context, SOWN_SEGMENTS_LOG))
            /\ SOWN_SEGMENTS_LOG' = LogAfterCommit(current_segment,
                   sow_flag_requested, context, SOWN_SEGMENTS_LOG)

\* The same call as a function: st holds the two lists and the log the call
\* finds, the value is what it leaves.  Used by helpers that make several
\* calls in a row.
CommitResult(st, new_lane_point, sow_flag_requested, context) ==
    IF st.points = << >>
    THEN [st EXCEPT !.points = <<new_lane_point>>]
    ELSE IF st.points[Len(st.points)] = new_lane_point
    THEN st
    ELSE LET current_segment ==
                 SegmentOf(st.points[Len(st.points)], new_lane_point)
         IN [points |-> Append(st.points, new_lane_point),
             flags |-> Append(st.flags,
                 ActualSowFlag(current_segment, sow_flag_requested,
                               context, st.log)),
             log |-> LogAfterCommit(current_segment, sow_flag_requested,
                                    context, st.log)]

RECURSIVE CommitAll(_, _)
CommitAll(st, ops) ==
    IF ops = << >> THEN st
    ELSE CommitAll(CommitResult(st, Head(ops).pt, Head(ops).sow, Head(ops).ctx),
                   Tail(ops))

\* _commit_partial_vertical_sweep: the _commit_point_to_path calls it makes.
PartialVerticalSweepOps(curr_x, start_y, end_y, gap) ==
    LET direction == IF end_y > start_y THEN 1 ELSE -1
        total_distance == Abs(end_y - start_y)
        sow_start_y == start_y + gap * direction
        sow_end_y == end_y - gap * direction
    IN IF start_y = end_y THEN << >>
       ELSE IF total_distance <= 2 * gap
       THEN <<Op(<<curr_x, end_y>>, TRUE, "PartialSweep_FullSown")>>
       ELSE When(sow_start_y # start_y,
                 <<Op(<<curr_x, sow_start_y>>, FALSE, "PartialSweep_Phase1_Gap")>>)
            \o <<Op(<<curr_x, sow_end_y>>, TRUE, "PartialSweep_Phase2_Sown")>>
            \o When(sow_end_y # end_y,
                 <<Op(<<curr_x, end_y>>, FALSE, "PartialSweep_Phase3_Gap")>>)

\* ---------------------------------------------------------------- inputs
\* Lane points on the field boundary of a grid with the given max indices.
BoundaryPoints(mx, my) ==
    {p \in (0 .. mx) \X (0 .. my) :
        p[1] = 0 \/ p[1] = mx \/ p[2] = 0 \/ p[2] = my}

\* Points a direct caller of the committer may pass.
CallerPoints == {<<0, 0>>, <<0, 1>>, <<1, 1>>}
ProcessPoints == {<<0, 0>>, <<0, 1>>}

\* Where a caller of _commit_partial_vertical_sweep starts its list.
SweepOrigins == {<<0, 0>>}

ex_ln_x == exit_point_lanes[1]
ex_ln_y == exit_point_lanes[2]

Idle == pc \in {"idle", "DONE"}

\* No _commit_partial_vertical_sweep call has been made yet.
NoCall == [made |-> FALSE]

\* ------------------------------------------------------------------ Init
Init ==
    /\ rover_width_m = 1
    /\ rover_length_m = 1
    /\ max_lane_idx_x \in 2 .. MaxLaneX
    /\ max_lane_idx_y \in 0 .. MaxLaneY
    /\ n_inner_x_sweeps \in 0 .. (max_lane_idx_x - 1)
    /\ exit_point_lanes \in BoundaryPoints(max_lane_idx_x, max_lane_idx_y)
    /\ is_corner_exit \in BOOLEAN
    /\ gap_size \in 0 .. MaxGap
    /\ farm_width_m = max_lane_idx_x + 1
    /\ farm_breadth_m = max_lane_idx_y + 1
    /\ pc = "idle"
    /\ pending = << >>
    /\ points_lanes = << >>
    /\ sow_flags = << >>
    /\ curr_ln_x = 0
    /\ curr_ln_y = 0
    /\ lanes_to_sweep_x = << >>
    /\ sweep_i = 0
    /\ SOWN_SEGMENTS_LOG = {}
    /\ points_list = << >>
    /\ sow_flags_list = << >>
    /\ runs = 0
    /\ results = << >>
    /\ log_at_call = {}
    /\ sweep_call = NoCall
    /\ arg_change = "none"
    /\ b_choice = 0
    /\ ex_l = -1
    /\ ey_l = -1
    /\ row_sequence = << >>

\* --------------------------------------------------------------- actions
\* Mutant of ClearedLog: the clear() at the top of the planner is missing.
UnclearedLog(log) == log

\* SOWN_SEGMENTS_LOG.clear()
ClearedLog(log) == {}

\* Mutant of Call: the two lists are module-level and not re-created, so a
\* call appends to what the previous call left.
CallWithoutReset ==
    /\ pc \in {"idle", "DONE"}
    /\ runs < MaxRuns
    /\ runs' = runs + 1
    /\ log_at_call' = SOWN_SEGMENTS_LOG
    /\ SOWN_SEGMENTS_LOG' = {}
    /\ lanes_to_sweep_x' =
           LanesToSweepX(n_inner_x_sweeps, max_lane_idx_x, exit_point_lanes[1])
    /\ curr_ln_x' =
           InitialPosLaneX(n_inner_x_sweeps, max_lane_idx_x, exit_point_lanes[1])
    /\ curr_ln_y' = StartLaneY(max_lane_idx_y, exit_point_lanes[2])
    /\ points_lanes' = Append(points_lanes, <<curr_ln_x', curr_ln_y'>>)
    /\ sow_flags' = sow_flags
    /\ sweep_i' = 0
    /\ pending' = << >>
    /\ pc' = "INNER_SWEEPS"
    /\ UNCHANGED <<uservars, fieldvars, sweep_call, argvars, extvars, results>>

\* Mutant of Call: a corner exit is approached without inner sweeps (the
\* sweep list is left empty when is_corner_exit is set).
CallCornerWithoutSweeps ==
    /\ pc \in {"idle", "DONE"}
    /\ runs < MaxRuns
    /\ runs' = runs + 1
    /\ log_at_call' = SOWN_SEGMENTS_LOG
    /\ SOWN_SEGMENTS_LOG' = {}
    /\ lanes_to_sweep_x' =
           IF is_corner_exit THEN << >>
           ELSE LanesToSweepX(n_inner_x_sweeps, max_lane_idx_x,
                              exit_point_lanes[1])
    /\ curr_ln_x' =
           InitialPosLaneX(n_inner_x_sweeps, max_lane_idx_x, exit_point_lanes[1])
    /\ curr_ln_y' = StartLaneY(max_lane_idx_y, exit_point_lanes[2])
    /\ points_lanes' = <<<<curr_ln_x', curr_ln_y'>>>>
    /\ sow_flags' = << >>
    /\ sweep_i' = 0
    /\ pending' = << >>
    /\ pc' = "INNER_SWEEPS"
    /\ UNCHANGED <<uservars, fieldvars, sweep_call, argvars, extvars, results>>

\* generate_fixed_path_optimized is entered: the log is cleared, the lists
\* are created, the start position and the sweep order are computed and
\* the first waypoint is placed (phase INIT).
Call ==
    /\ Idle
    /\ runs < MaxRuns
    /\ runs' = runs + 1
    /\ log_at_call' = SOWN_SEGMENTS_LOG
    /\ SOWN_SEGMENTS_LOG' = ClearedLog(SOWN_SEGMENTS_LOG)
    /\ lanes_to_sweep_x' =
           LanesToSweepX(n_inner_x_sweeps, max_lane_idx_x, ex_ln_x)
    /\ curr_ln_x' = InitialPosLaneX(n_inner_x_sweeps, max_lane_idx_x, ex_ln_x)
    /\ curr_ln_y' = StartLaneY(max_lane_idx_y, ex_ln_y)
    /\ points_lanes' = <<<<curr_ln_x', curr_ln_y'>>>>
    /\ sow_flags' = << >>
    /\ sweep_i' = 0
    /\ pending' = << >>
    /\ pc' = "INNER_SWEEPS"
    /\ UNCHANGED <<uservars, fieldvars, sweep_call, argvars, extvars, results>>

\* One call of the planner's _commit, the next one the current phase makes.
CommitStep ==
    /\ pending # << >>
    /\ LET op == Head(pending)
       IN /\ points_lanes' = CommitPoints(points_lanes, op.pt)
          /\ sow_flags' = CommitFlags(points_lanes, sow_flags, op.pt, op.sow)
          /\ curr_ln_x' = op.pt[1]
          /\ curr_ln_y' = op.pt[2]
    /\ pending' = Tail(pending)
    /\ UNCHANGED <<uservars, fieldvars, sweep_call, argvars,
                   pc, lanes_to_sweep_x, sweep_i, SOWN_SEGMENTS_LOG,
                   extvars, histvars>>

\* One iteration of the inner-sweep loop begins.
InnerSweep ==
    /\ pc = "INNER_SWEEPS"
    /\ pending = << >>
    /\ sweep_i < Len(lanes_to_sweep_x)
    /\ pending' = InnerSweepOps(sweep_i + 1, lanes_to_sweep_x,
                                curr_ln_x, curr_ln_y,
                                max_lane_idx_x, max_lane_idx_y,
                                ex_ln_x, ex_ln_y, gap_size)
    /\ sweep_i' = sweep_i + 1
    /\ UNCHANGED <<uservars, fieldvars, sweep_call, argvars,
                   pc, points_lanes, sow_flags, curr_ln_x, curr_ln_y,
                   lanes_to_sweep_x, SOWN_SEGMENTS_LOG, extvars, histvars>>

\* The loop is over; boundary coverage begins.
BoundaryCoverage ==
    /\ pc = "INNER_SWEEPS"
    /\ pending = << >>
    /\ sweep_i >= Len(lanes_to_sweep_x)
    /\ pending' = BoundaryOps(curr_ln_x, curr_ln_y,
                              max_lane_idx_x, max_lane_idx_y, ex_ln_x, ex_ln_y)
    /\ pc' = "BOUNDARY_COVERAGE"
    /\ UNCHANGED <<uservars, fieldvars, sweep_call, argvars,
                   points_lanes, sow_flags, curr_ln_x, curr_ln_y,
                   lanes_to_sweep_x, sweep_i, SOWN_SEGMENTS_LOG, extvars,
                   histvars>>

\* `# FIXED: Ensure we end exactly at exit point`
ExitApproach ==
    /\ pc = "BOUNDARY_COVERAGE"
    /\ pending = << >>
    /\ pending' = ExitApproachOps(points_lanes, exit_point_lanes)
    /\ pc' = "EXIT_APPROACH"
    /\ UNCHANGED <<uservars, fieldvars, sweep_call, argvars,
                   points_lanes, sow_flags, curr_ln_x, curr_ln_y,
                   lanes_to_sweep_x, sweep_i, SOWN_SEGMENTS_LOG, extvars,
                   histvars>>

\* return {'points_lanes': _points_lanes, 'sow_flags': _sow_flags}
Return ==
    /\ pc = "EXIT_APPROACH"
    /\ pending = << >>
    /\ results' = Append(results,
           [points_lanes |-> points_lanes, sow_flags |-> sow_flags])
    /\ pc' = "DONE"
    /\ UNCHANGED <<uservars, fieldvars, sweep_call, argvars,
                   pending, points_lanes, sow_flags, curr_ln_x,
                   curr_ln_y, lanes_to_sweep_x, sweep_i, SOWN_SEGMENTS_LOG,
                   extvars, runs, log_at_call>>

\* A caller outside the planner uses the shared committer on its own lists,
\* while no planning call is running.
DirectCommit(points, maxlen) ==
    /\ Idle
    /\ Len(points_list) < maxlen
    /\ \E pt \in points, sow \in BOOLEAN, ctx \in Contexts :
           CommitPointToPath(pt, sow, ctx)
    /\ UNCHANGED <<uservars, fieldvars, sweep_call, argvars, planvars, histvars>>

\* A caller standing at the end of its list sweeps its lane to the bottom
\* or the top row with _commit_partial_vertical_sweep, using the gap of the
\* field.
PartialVerticalSweep ==
    /\ Idle
    /\ points_list # << >>
    /\ Len(points_list) < MaxSweepLen
    /\ \E end_y \in {0, max_lane_idx_y} :
          LET curr_x == points_list[Len(points_list)][1]
              start_y == points_list[Len(points_list)][2]
              after == CommitAll([points |-> points_list,
                                  flags |-> sow_flags_list,
                                  log |-> SOWN_SEGMENTS_LOG],
                                 PartialVerticalSweepOps(curr_x, start_y,
                                                         end_y, gap_size))
          IN /\ points_list' = after.points
             /\ sow_flags_list' = after.flags
             /\ SOWN_SEGMENTS_LOG' = after.log
             /\ sweep_call' = [made |-> TRUE, curr_x |-> curr_x,
                               start_y |-> start_y, end_y |-> end_y,
                               gap_size |-> gap_size,
                               len_before |-> Len(points_list),
                               log_before |-> SOWN_SEGMENTS_LOG]
    /\ UNCHANGED <<uservars, fieldvars, argvars, planvars, histvars>>

PlannerNext ==
    \/ Call
    \/ CommitStep
    \/ InnerSweep
    \/ BoundaryCoverage
    \/ ExitApproach
    \/ Return

\* Planner calls with any accepted arguments, one after another.
Next == PlannerNext
Spec == Init /\ [][Next]_vars

\* The committer alone, called with arbitrary points, requests and labels.
InitCommitter ==
    /\ Init
    /\ max_lane_idx_x = 2
    /\ max_lane_idx_y = 1
    /\ n_inner_x_sweeps = 1
    /\ exit_point_lanes = <<0, 0>>
    /\ is_corner_exit
    /\ gap_size = 1
NextCommitter == DirectCommit(CallerPoints, MaxListLen)
SpecCommitter == InitCommitter /\ [][NextCommitter]_vars

\* The process of main(): n_inner_x_sweeps = num_lanes_x - 2, gap_size left
\* at its default, and other code using the committer between planner calls.
DefaultGapSize == 1
InitProcess ==
    /\ Init
    /\ n_inner_x_sweeps = max_lane_idx_x - 1
    /\ gap_size = DefaultGapSize
NextProcess ==
    \/ PlannerNext
    \/ (pc = "DONE" /\ DirectCommit(ProcessPoints, MaxDirectLen))
SpecProcess == InitProcess /\ [][NextProcess]_vars

\* ------------------------------------------ get_user_defined_exit_lanes
\* What the user may type at a prompt: text that int() rejects with a
\* ValueError, or an integer.
UserInputs ==
    {[is_int |-> FALSE, value |-> 0]}
    \cup {[is_int |-> TRUE, value |-> v] : v \in -1 .. (MaxLaneX + 1)}

\* Mutant of LaneInRange: the upper limit is the lane count, not the largest
\* lane index.
LaneInRangeOfCount(lane, max_idx) == 0 <= lane /\ lane <= max_idx + 1

\* `assert 0 <= ex_l <= max_lx_idx` and its y counterpart
LaneInRange(lane, max_idx) == 0 <= lane /\ lane <= max_idx

\* The resolver has been entered for some grid; nothing is chosen yet.
InitResolver ==
    /\ rover_width_m = 1
    /\ rover_length_m = 1
    /\ max_lane_idx_x \in 2 .. MaxLaneX
    /\ max_lane_idx_y \in 0 .. MaxLaneY
    /\ farm_width_m = max_lane_idx_x + 1
    /\ farm_breadth_m = max_lane_idx_y + 1
    /\ n_inner_x_sweeps = max_lane_idx_x - 1
    /\ exit_point_lanes = <<-1, -1>>
    /\ is_corner_exit = FALSE
    /\ gap_size = DefaultGapSize
    /\ pc = "choose_boundary"
    /\ pending = << >>
    /\ points_lanes = << >>
    /\ sow_flags = << >>
    /\ curr_ln_x = 0
    /\ curr_ln_y = 0
    /\ lanes_to_sweep_x = << >>
    /\ sweep_i = 0
    /\ SOWN_SEGMENTS_LOG = {}
    /\ points_list = << >>
    /\ sow_flags_list = << >>
    /\ runs = 0
    /\ results = << >>
    /\ log_at_call = {}
    /\ sweep_call = NoCall
    /\ arg_change = "none"
    /\ b_choice = 0
    /\ ex_l = -1
    /\ ey_l = -1
    /\ row_sequence = << >>

\* One pass of the first loop: the boundary prompt is answered.
ResolverChooseBoundary ==
    /\ pc = "choose_boundary"
    /\ \E inp \in UserInputs :
          IF inp.is_int
          THEN /\ b_choice' = inp.value
               /\ pc' = IF 1 <= inp.value /\ inp.value <= 4
                        THEN "enter_lane" ELSE "choose_boundary"
          ELSE UNCHANGED <<b_choice, pc>>
    /\ UNCHANGED <<fieldvars, argvars, pending, points_lanes, sow_flags,
                   curr_ln_x, curr_ln_y, lanes_to_sweep_x, sweep_i,
                   SOWN_SEGMENTS_LOG, extvars, histvars, sweep_call,
                   arg_change, ex_l, ey_l, row_sequence>>

\* One pass of the second loop: the coordinate the boundary fixes is set,
\* the lane prompt is answered, and the point is returned if the answer is
\* an integer that passes the range assertion.
ResolverEnterLane ==
    /\ pc = "enter_lane"
    /\ \E inp \in UserInputs :
          LET on_row == b_choice \in {1, 2}
              fixed == IF b_choice = 1 THEN max_lane_idx_y
                       ELSE IF b_choice = 2 THEN 0
                       ELSE IF b_choice = 3 THEN 0
                       ELSE max_lane_idx_x
              limit == IF on_row THEN max_lane_idx_x ELSE max_lane_idx_y
              new_ex == IF on_row
                        THEN (IF inp.is_int THEN inp.value ELSE ex_l)
                        ELSE fixed
              new_ey == IF on_row
                        THEN fixed
                        ELSE (IF inp.is_int THEN inp.value ELSE ey_l)
          IN /\ ex_l' = new_ex
             /\ ey_l' = new_ey
             /\ IF inp.is_int /\ LaneInRange(inp.value, limit)
                THEN /\ pc' = "resolved"
                     /\ exit_point_lanes' = <<new_ex, new_ey>>
                ELSE UNCHANGED <<pc, exit_point_lanes>>
    /\ UNCHANGED <<fieldvars, n_inner_x_sweeps, max_lane_idx_x, max_lane_idx_y,
                   is_corner_exit, gap_size, pending, points_lanes, sow_flags,
                   curr_ln_x, curr_ln_y, lanes_to_sweep_x, sweep_i,
                   SOWN_SEGMENTS_LOG, extvars, histvars, sweep_call,
                   arg_change, b_choice, row_sequence>>

NextResolver ==
    \/ ResolverChooseBoundary
    \/ ResolverEnterLane
SpecResolver == InitResolver /\ [][NextResolver]_vars

\* ------------------------------------------------ two calls by one caller
\* The exit reflected left-right on a grid with largest lane index mx.
MirroredExit(exit, mx, my) == <<mx - exit[1], exit[2]>>

\* Between two planner calls the caller changes one argument and keeps the
\* others: it reflects the exit left-right, or it flips is_corner_exit.
ChangeArgs ==
    /\ pc = "DONE"
    /\ runs = 1
    /\ arg_change = "none"
    /\ \/ /\ arg_change' = "mirror"
          /\ exit_point_lanes' =
                 MirroredExit(exit_point_lanes, max_lane_idx_x, max_lane_idx_y)
          /\ UNCHANGED is_corner_exit
       \/ /\ arg_change' = "corner"
          /\ is_corner_exit' = ~is_corner_exit
          /\ UNCHANGED exit_point_lanes
    /\ UNCHANGED <<fieldvars, n_inner_x_sweeps, max_lane_idx_x, max_lane_idx_y,
                   gap_size, planvars, SOWN_SEGMENTS_LOG, extvars, histvars,
                   sweep_call, b_choice, ex_l, ey_l, row_sequence>>

\* A first call with any accepted arguments, one changed argument, and a
\* second call.
NextPairs ==
    \/ ((runs = 0 \/ arg_change # "none") /\ Call)
    \/ CommitStep
    \/ InnerSweep
    \/ BoundaryCoverage
    \/ ExitApproach
    \/ Return
    \/ ChangeArgs
SpecPairs == Init /\ [][NextPairs]_vars

\* ------------------------------------------------------------- main()
\* num_lanes_x = int(farm_width_m / rover_width_m) and num_lanes_y likewise.
\* The inputs are positive floats; they are drawn here from the positive
\* integers, for which the truncated double quotient is the integer
\* quotient.
NumLanes(farm_m, rover_m) == farm_m \div rover_m
num_lanes_x == NumLanes(farm_width_m, rover_width_m)
num_lanes_y == NumLanes(farm_breadth_m, rover_length_m)

\* Mutant of TooNarrow: the test is off by one (`num_lanes_x < 2`).
TooNarrowOffByOne(lanes_x) == lanes_x < 2

\* `if num_lanes_x < 3: ... return None`
TooNarrow(lanes_x) == lanes_x < 3

\* `if num_lanes_y < 1: ... return None`
TooShallow(lanes_y) == lanes_y < 1

\* What get_user_choice_corner_lanes can return.
CornerLanes(mx, my) == {<<0, my>>, <<mx, my>>, <<0, 0>>, <<mx, 0>>}

\* What get_user_defined_exit_lanes can return: a boundary and an index on
\* it that passed the range assertion.
UserDefinedExitLanes(mx, my) ==
    {<<x, my>> : x \in 0 .. mx} \cup {<<x, 0>> : x \in 0 .. mx}
    \cup {<<0, y>> : y \in 0 .. my} \cup {<<mx, y>> : y \in 0 .. my}

\* main() has read the four dimensions and nothing else has happened.
InitMain ==
    /\ farm_width_m \in 1 .. (MaxLaneX + 1)
    /\ farm_breadth_m \in 1 .. (MaxLaneY + 1)
    /\ rover_width_m \in 1 .. MaxRover
    /\ rover_length_m \in 1 .. MaxRover
    /\ n_inner_x_sweeps = 0
    /\ max_lane_idx_x = 0
    /\ max_lane_idx_y = 0
    /\ exit_point_lanes = <<0, 0>>
    /\ is_corner_exit = FALSE
    /\ gap_size = DefaultGapSize
    /\ pc = "configure"
    /\ pending = << >>
    /\ points_lanes = << >>
    /\ sow_flags = << >>
    /\ curr_ln_x = 0
    /\ curr_ln_y = 0
    /\ lanes_to_sweep_x = << >>
    /\ sweep_i = 0
    /\ SOWN_SEGMENTS_LOG = {}
    /\ points_list = << >>
    /\ sow_flags_list = << >>
    /\ runs = 0
    /\ results = << >>
    /\ log_at_call = {}
    /\ sweep_call = NoCall
    /\ arg_change = "none"
    /\ b_choice = 0
    /\ ex_l = -1
    /\ ey_l = -1
    /\ row_sequence = << >>

\* The lane counts are computed and checked; a grid that is too small ends
\* main() with None, otherwise the planner's grid arguments are derived.
MainConfigure ==
    /\ pc = "configure"
    /\ IF TooNarrow(num_lanes_x) \/ TooShallow(num_lanes_y)
       THEN /\ pc' = "rejected"
            /\ UNCHANGED <<max_lane_idx_x, max_lane_idx_y, n_inner_x_sweeps>>
       ELSE /\ max_lane_idx_x' = num_lanes_x - 1
            /\ max_lane_idx_y' = num_lanes_y - 1
            /\ n_inner_x_sweeps' = Max(0, num_lanes_x - 2)
            /\ pc' = "select_exit"
    /\ UNCHANGED <<uservars, fieldvars, sweep_call, exit_point_lanes, is_corner_exit,
                   gap_size, pending, points_lanes, sow_flags, curr_ln_x,
                   curr_ln_y, lanes_to_sweep_x, sweep_i, SOWN_SEGMENTS_LOG,
                   extvars, histvars>>

\* The user picks the exit type and the exit lane.
MainSelectExit ==
    /\ pc = "select_exit"
    /\ \E is_corner_exit_choice \in BOOLEAN :
          /\ is_corner_exit' = is_corner_exit_choice
          /\ exit_point_lanes' \in
                 IF is_corner_exit_choice
                 THEN CornerLanes(max_lane_idx_x, max_lane_idx_y)
                 ELSE UserDefinedExitLanes(max_lane_idx_x, max_lane_idx_y)
    /\ pc' = "idle"
    /\ UNCHANGED <<uservars, fieldvars, sweep_call, n_inner_x_sweeps, max_lane_idx_x,
                   max_lane_idx_y, gap_size, pending, points_lanes, sow_flags,
                   curr_ln_x, curr_ln_y, lanes_to_sweep_x, sweep_i,
                   SOWN_SEGMENTS_LOG, extvars, histvars>>

\* The two checks main() makes on what the planner returned.
MainCheckResult ==
    /\ pc = "DONE"
    /\ pc' = IF points_lanes = << >> \/ Len(points_lanes) < 2 THEN "failed"
             ELSE IF Len(sow_flags) # Len(points_lanes) - 1 THEN "failed"
             ELSE "animate"
    /\ UNCHANGED <<uservars, fieldvars, sweep_call, argvars, pending, points_lanes,
                   sow_flags, curr_ln_x, curr_ln_y, lanes_to_sweep_x, sweep_i,
                   SOWN_SEGMENTS_LOG, extvars, histvars>>

\* ---------------------------------------- analyze_optimized_path_sequence
\* `segment_distance < max_possible_distance * 0.8`: for the lane counts
\* used here the double product compares with an integer as 8 * max / 10
\* does.
IsOptimizedPartial(segment_distance, max_possible_distance) ==
    10 * segment_distance < 8 * max_possible_distance

\* f"VRow{v_counter}_Optimized" or f"VRow{v_counter}"
VRowLabel(v_counter, segment_distance, max_ly_idx_val) ==
    IF IsOptimizedPartial(segment_distance, max_ly_idx_val)
    THEN "VRow" \o ToString(v_counter) \o "_Optimized"
    ELSE "VRow" \o ToString(v_counter)

\* The loop body for segment i (1-based; the code's i is i - 1) and the
\* rest of the loop, given the counters and the sets of labelled lanes.
RECURSIVE AnalyzeFrom(_, _, _, _, _, _, _, _, _, _)
AnalyzeFrom(i, path, flags, mx, my, exit, v_counter, h_counter, labeled_v_lanes, labeled_h_lanes) ==
    IF i > Len(path) - 1 THEN << >>
    ELSE
    LET lx1 == path[i][1]
        ly1 == path[i][2]
        lx2 == path[i + 1][1]
        ly2 == path[i + 1][2]
        is_sown == i <= Len(flags) /\ flags[i]
        vertical == lx1 = lx2 /\ ly1 # ly2
        horizontal == ~vertical /\ ly1 = ly2 /\ lx1 # lx2
        mov_type == IF vertical THEN "VRow_Path"
                    ELSE IF horizontal THEN "HRow_Path" ELSE "Other"
        new_v == vertical /\ is_sown /\ 1 <= lx1 /\ lx1 <= mx - 1
                 /\ lx1 \notin labeled_v_lanes
        new_h == horizontal /\ is_sown /\ (ly1 = 0 \/ ly1 = my)
                 /\ ly1 \notin labeled_h_lanes
        exit_approach == Abs(lx2 - exit[1]) < Abs(lx1 - exit[1])
        closer == Abs(lx2 - exit[1]) + Abs(ly2 - exit[2])
                      < Abs(lx1 - exit[1]) + Abs(ly1 - exit[2])
        sown_label ==
            IF new_v THEN VRowLabel(v_counter, Abs(ly2 - ly1), my)
            ELSE IF vertical /\ is_sown /\ (lx1 = 0 \/ lx1 = mx)
            THEN (IF Abs(ly2 - ly1) < my
                  THEN "Boundary_V" \o ToString(lx1) \o "_Optimized"
                  ELSE "Boundary_V" \o ToString(lx1))
            ELSE IF new_h
            THEN (IF exit_approach
                  THEN "HRow" \o ToString(h_counter) \o "_ExitApproach"
                  ELSE "HRow" \o ToString(h_counter))
            ELSE IF horizontal /\ is_sown
            THEN "H-Turn" \o ToString(i) \o "_Optimized"
            ELSE ""
        label ==
            IF ~is_sown /\ (vertical \/ horizontal)
            THEN (IF closer THEN "ExitPositioning_" \o ToString(i)
                  ELSE "Transition_" \o ToString(i))
            ELSE sown_label
    IN <<[segment_path_index |-> i - 1, movement_type |-> mov_type,
          label |-> label, is_sown |-> is_sown]>>
       \o AnalyzeFrom(i + 1, path, flags, mx, my, exit,
                      IF new_v THEN v_counter + 1 ELSE v_counter,
                      IF new_h THEN h_counter + 1 ELSE h_counter,
                      IF new_v THEN labeled_v_lanes \cup {lx1}
                      ELSE labeled_v_lanes,
                      IF new_h THEN labeled_h_lanes \cup {ly1}
                      ELSE labeled_h_lanes)

\* analyze_optimized_path_sequence(path_lanes_list, n, max_lx_idx_val,
\*                                 max_ly_idx_val, sow_flags_list, exit_lanes)
AnalyzeOptimizedPathSequence(path, mx, my, flags, exit) ==
    IF path = << >> \/ Len(path) < 2 THEN << >>
    ELSE AnalyzeFrom(1, path, flags, mx, my, exit, 1, 1, {}, {})

\* The animation set-up classifies the segments of the checked path.
MainAnalyze ==
    /\ pc = "animate"
    /\ row_sequence' = AnalyzeOptimizedPathSequence(points_lanes,
           max_lane_idx_x, max_lane_idx_y, sow_flags, exit_point_lanes)
    /\ pc' = "analyzed"
    /\ UNCHANGED <<fieldvars, argvars, pending, points_lanes, sow_flags,
                   curr_ln_x, curr_ln_y, lanes_to_sweep_x, sweep_i,
                   SOWN_SEGMENTS_LOG, extvars, histvars, sweep_call,
                   arg_change, b_choice, ex_l, ey_l>>

\* One run of main() from the dimensions to the classified planner result.
NextMain ==
    \/ MainConfigure
    \/ MainSelectExit
    \/ (runs = 0 /\ Call)
    \/ CommitStep
    \/ InnerSweep
    \/ BoundaryCoverage
    \/ ExitApproach
    \/ Return
    \/ MainCheckResult
    \/ MainAnalyze
SpecMain == InitMain /\ [][NextMain]_vars

\* One planner call with any accepted arguments, after which a caller sweeps
\* a headland back and forth with _commit_partial_vertical_sweep.
InitSweeps == Init
NextSweeps ==
    \/ (runs = 0 /\ Call)
    \/ CommitStep
    \/ InnerSweep
    \/ BoundaryCoverage
    \/ ExitApproach
    \/ Return
    \/ (pc = "DONE" /\ DirectCommit(SweepOrigins, 1))
    \/ (pc = "DONE" /\ PartialVerticalSweep)
SpecSweeps == InitSweeps /\ [][NextSweeps]_vars


\* ======================================================================
\* Properties
\* ======================================================================
Returned == pc = "DONE"
LastPoint(pts) == pts[Len(pts)]
SegmentAt(pts, k) == SegmentOf(pts[k], pts[k + 1])
LanesVisited(pts) == {pts[k][1] : k \in 1 .. Len(pts)}

\* No undirected segment of the path pts is flagged True twice in flags.
SownAtMostOnce(pts, flags) ==
    \A j, k \in 1 .. Len(flags) :
        (j < k /\ flags[j] /\ flags[k] /\ k < Len(pts))
            => SegmentAt(pts, j) # SegmentAt(pts, k)

\* C1: the path the planner returns ends at the exit point, for every
\* accepted input (max_lane_x >= 2, max_lane_y >= 0, exit on the boundary,
\* gap_size >= 0, any number of requested inner sweeps).
C1_ExitTermination ==
    Returned => /\ points_lanes # << >>
                /\ LastPoint(points_lanes) = exit_point_lanes

\* C1 witness: a call has returned a path of several segments whose exit is
\* not a corner, ending on the exit.
C1_Witness ==
    /\ Returned
    /\ Len(points_lanes) >= 5
    /\ ex_ln_x \notin {0, max_lane_idx_x}
    /\ LastPoint(points_lanes) = exit_point_lanes

\* C2 (as claimed): in the returned output no undirected segment that occurs
\* more than once is flagged True more than once.
C2_AtMostOnceSown ==
    Returned => SownAtMostOnce(points_lanes, sow_flags)

\* C3: at every point of a planning call and on return there is exactly one
\* flag per consecutive waypoint pair: len(sow_flags) == len(points) - 1.
C3_FlagLength ==
    pc # "idle" => Len(sow_flags) = Len(points_lanes) - 1

\* C3 witness: in the middle of boundary coverage, standing on the exit
\* point after several commits, with commits still to be made.
C3_Witness ==
    /\ pc = "BOUNDARY_COVERAGE"
    /\ pending # << >>
    /\ Len(sow_flags) >= 3
    /\ curr_ln_x = ex_ln_x /\ curr_ln_y = ex_ln_y

\* C4: with every inner lane requested (n_inner_x_sweeps = max_lane_x - 1
\* >= 1) the x values of the returned waypoints are exactly 0..max_lane_x.
C4_FullCoverage ==
    (Returned /\ n_inner_x_sweeps = max_lane_idx_x - 1 /\ n_inner_x_sweeps >= 1)
        => LanesVisited(points_lanes) = 0 .. max_lane_idx_x

\* C4 witness: a returned path over three inner lanes that visits all five
\* lanes.
C4_Witness ==
    /\ Returned
    /\ max_lane_idx_x = 4
    /\ n_inner_x_sweeps = 3
    /\ LanesVisited(points_lanes) = 0 .. 4

\* C5: consecutive waypoints always differ in exactly one coordinate; no
\* diagonal segment is committed in any phase.
C5_AxisAligned ==
    \A k \in 1 .. (Len(points_lanes) - 1) :
        (points_lanes[k][1] # points_lanes[k + 1][1])
            # (points_lanes[k][2] # points_lanes[k + 1][2])

\* C5 witness: a returned path with inner sweeps, lane transitions and
\* boundary coverage, all axis-aligned.
C5_Witness ==
    /\ Returned
    /\ Len(lanes_to_sweep_x) >= 2
    /\ max_lane_idx_y >= 1
    /\ \E k \in 1 .. (Len(points_lanes) - 1) :
           points_lanes[k][1] # points_lanes[k + 1][1]
    /\ \E k \in 1 .. (Len(points_lanes) - 1) :
           points_lanes[k][2] # points_lanes[k + 1][2]

\* C6 (as claimed): the last segment of the returned path, the final
\* approach into the exit, is flagged False.
C6_FinalApproachUnsown ==
    (Returned /\ sow_flags # << >>) => ~sow_flags[Len(sow_flags)]

\* C7 (as claimed): after any sequence of calls of _commit_point_to_path
\* from an empty sown set no undirected segment is flagged True twice.
C7_CommitterAtMostOnce ==
    SownAtMostOnce(points_list, sow_flags_list)

\* C8: a planning call runs on an empty sown set whatever the committer was
\* used for before it, and returns what the first call of the process (made
\* on a fresh log) returned for the same arguments.
C8_LogScopedToCall ==
    /\ ~Idle => SOWN_SEGMENTS_LOG = {}
    /\ \A k \in 1 .. Len(results) : results[k] = results[1]

\* C8 witness: a second call has returned although it was entered with
\* segments in the log left by direct committer calls.
C8_Witness ==
    /\ Returned
    /\ Len(results) = 2
    /\ log_at_call # {}
    /\ results[2] = results[1]

\* C9: two calls with identical arguments, one after the other in the same
\* process, return identical points_lanes and identical sow_flags.
C9_Determinism ==
    \A k \in 2 .. Len(results) :
        /\ results[k].points_lanes = results[k - 1].points_lanes
        /\ results[k].sow_flags = results[k - 1].sow_flags

\* C9 witness: the second call has returned a path with sown segments.
C9_Witness ==
    /\ Returned
    /\ Len(results) = 2
    /\ \E k \in 1 .. Len(results[2].sow_flags) : results[2].sow_flags[k]

\* C10: with no inner sweeps on the three-lane grid (n_inner_x_sweeps = 0,
\* max_lane_x = 2) the returned path has a waypoint on lane 0, a waypoint on
\* lane 2, and ends at the exit.
C10_MinimalWidth ==
    (Returned /\ n_inner_x_sweeps = 0 /\ max_lane_idx_x = 2)
        => /\ {0, 2} \subseteq LanesVisited(points_lanes)
           /\ LastPoint(points_lanes) = exit_point_lanes

\* C10 witness: such a call has returned for an exit in the middle of the
\* bottom row of a grid with several rows.
C10_Witness ==
    /\ Returned
    /\ n_inner_x_sweeps = 0
    /\ max_lane_idx_x = 2
    /\ max_lane_idx_y >= 1
    /\ exit_point_lanes = <<1, 0>>
    /\ {0, 2} \subseteq LanesVisited(points_lanes)

\* C11 (as claimed): the planner never returns normally a result that breaks
\* a completion postcondition: a returned path ends on the exit, has one
\* flag per segment, and has a waypoint on every lane x of 0..max_lane_x,
\* for any n_inner_x_sweeps including 0.  (The code has no raise: Return is
\* the only way a call ends.)
C11_PostconditionsOnReturn ==
    Returned => /\ LastPoint(points_lanes) = exit_point_lanes
                /\ Len(sow_flags) = Len(points_lanes) - 1
                /\ \A x \in 0 .. max_lane_idx_x : x \in LanesVisited(points_lanes)

\* C12: when floor(field_width / rover_width) < 3 or floor(field_breadth /
\* rover_length) < 1, main() rejects the configuration before any path
\* computation: the planner is never entered and no path, flag or sown-set
\* content exists at any time.
C12_RejectedBeforePlanning ==
    (num_lanes_x < 3 \/ num_lanes_y < 1)
        => /\ pc \in {"configure", "rejected"}
           /\ runs = 0
           /\ results = << >>
           /\ points_lanes = << >>
           /\ sow_flags = << >>
           /\ SOWN_SEGMENTS_LOG = {}

\* C12 witness: main() has returned None for a field two lanes wide and at
\* least one row deep.
C12_Witness ==
    /\ pc = "rejected"
    /\ num_lanes_x = 2
    /\ num_lanes_y >= 1
    /\ runs = 0

\* C13: every committed waypoint (x, y) has 0 <= x <= max_lane_x and
\* 0 <= y <= max_lane_y, after every commit of every phase and for every
\* gap_size >= 0, also one larger than max_lane_y.
C13_WaypointsInRange ==
    \A k \in 1 .. Len(points_lanes) :
        /\ 0 <= points_lanes[k][1] /\ points_lanes[k][1] <= max_lane_idx_x
        /\ 0 <= points_lanes[k][2] /\ points_lanes[k][2] <= max_lane_idx_y

\* C13 witness: a call with gap_size larger than max_lane_y on a grid with
\* two rows and two inner sweeps has returned, every waypoint in range.
C13_Witness ==
    /\ Returned
    /\ gap_size > max_lane_idx_y
    /\ max_lane_idx_y = 1
    /\ Len(lanes_to_sweep_x) >= 2
    /\ Len(points_lanes) >= 6
    /\ \A k \in 1 .. Len(points_lanes) :
           points_lanes[k] \in (0 .. max_lane_idx_x) \X (0 .. max_lane_idx_y)

NoRepeatedWaypoint(pts) ==
    \A k \in 1 .. (Len(pts) - 1) : pts[k] # pts[k + 1]

\* C14: a commit whose point equals the current last waypoint changes
\* nothing: the planner's _commit leaves path, flags and sown set as they
\* are, and neither the planner's path nor a list built with
\* _commit_point_to_path ever holds two equal consecutive waypoints, an
\* extra flag, or a logged segment that is not a sown segment of the list.
C14_ZeroLengthCommitIsNoOp ==
    /\ [](/\ NoRepeatedWaypoint(points_lanes)
          /\ NoRepeatedWaypoint(points_list)
          /\ (points_list # << >>
                  => Len(sow_flags_list) = Len(points_list) - 1)
          /\ SOWN_SEGMENTS_LOG \subseteq
                 {SegmentAt(points_list, k) : k \in
                     {j \in 1 .. Len(sow_flags_list) : sow_flags_list[j]}})
    /\ [][(/\ pending # << >>
           /\ points_lanes # << >>
           /\ Head(pending).pt = LastPoint(points_lanes))
              => /\ points_lanes' = points_lanes
                 /\ sow_flags' = sow_flags
                 /\ SOWN_SEGMENTS_LOG' = SOWN_SEGMENTS_LOG]_vars

\* C14 witness: during the second planning call the next _commit is for the
\* point the path already ends on, while the caller's own list holds a sown
\* segment.
C14_Witness ==
    /\ runs = 2
    /\ pending # << >>
    /\ Len(points_lanes) >= 2
    /\ Head(pending).pt = LastPoint(points_lanes)
    /\ Len(points_list) = 2
    /\ sow_flags_list = <<TRUE>>

\* The order of the phases of one call; a later call starts over from DONE.
PhaseOrder ==
    {<<"idle", "INNER_SWEEPS">>, <<"INNER_SWEEPS", "BOUNDARY_COVERAGE">>,
     <<"BOUNDARY_COVERAGE", "EXIT_APPROACH">>, <<"EXIT_APPROACH", "DONE">>,
     <<"DONE", "INNER_SWEEPS">>}

OnBoundary(p) == p \in BoundaryPoints(max_lane_idx_x, max_lane_idx_y)

\* The segment from p to q runs along a lane strictly between the headlands.
InnerVertical(p, q) ==
    p[1] = q[1] /\ p[2] # q[2] /\ 0 < p[1] /\ p[1] < max_lane_idx_x

\* C15: the phases of a call follow one another in the order inner sweeps,
\* boundary coverage, exit approach, done, none entered twice; and every
\* waypoint committed from the start of boundary coverage on lies on the
\* field boundary and closes no vertical segment on an inner lane.
C15_PhaseOrder ==
    [][/\ pc' # pc => <<pc, pc'>> \in PhaseOrder
       /\ (pc \in {"BOUNDARY_COVERAGE", "EXIT_APPROACH"}
             /\ points_lanes' # points_lanes)
            => /\ Len(points_lanes') = Len(points_lanes) + 1
               /\ OnBoundary(LastPoint(points_lanes'))
               /\ ~InnerVertical(LastPoint(points_lanes),
                                 LastPoint(points_lanes'))]_vars

\* C15 witness: a call with two inner sweeps over several rows has returned
\* a path whose last four waypoints, all on the boundary, follow an inner
\* vertical segment.
C15_Witness ==
    /\ Returned
    /\ Len(lanes_to_sweep_x) >= 2
    /\ max_lane_idx_y >= 2
    /\ Len(points_lanes) >= 8
    /\ \A k \in (Len(points_lanes) - 3) .. Len(points_lanes) :
           OnBoundary(points_lanes[k])
    /\ \E k \in 1 .. (Len(points_lanes) - 4) :
           InnerVertical(points_lanes[k], points_lanes[k + 1])

\* The unit pieces of the grid lines the path pts runs along: <<"v", x, y>>
\* is the piece of lane x between rows y and y + 1, <<"h", x, y>> the piece
\* of row y between lanes x and x + 1.
Traversed(pts) ==
    UNION {
        LET p == pts[k]
            q == pts[k + 1]
        IN IF p[1] = q[1]
           THEN {<<"v", p[1], y>> : y \in Min(p[2], q[2]) .. (Max(p[2], q[2]) - 1)}
           ELSE IF p[2] = q[2]
           THEN {<<"h", x, p[2]>> : x \in Min(p[1], q[1]) .. (Max(p[1], q[1]) - 1)}
           ELSE {}
        : k \in 1 .. (Len(pts) - 1)}

\* Both headland lanes and both boundary rows, piece by piece.
BoundaryPieces(mx, my) ==
    {<<"v", x, y>> : x \in {0, mx}, y \in 0 .. (my - 1)}
    \cup {<<"h", x, y>> : x \in 0 .. (mx - 1), y \in {0, my}}

\* C16 (as claimed): on completion the path has run along the full length
\* of both headland lanes (x = 0 and x = max_lane_x) and of both boundary
\* rows (y = 0 and y = max_lane_y).
C16_BoundaryFullyTraversed ==
    Returned => BoundaryPieces(max_lane_idx_x, max_lane_idx_y)
                    \subseteq Traversed(points_lanes)

\* The final inner sweep of the call is a smart transition longer than twice
\* a gap of at least one lane.
FinalSweepHasGaps ==
    /\ lanes_to_sweep_x # << >>
    /\ ex_ln_y \in {0, max_lane_idx_y}
    /\ gap_size >= 1
    /\ max_lane_idx_y > 2 * gap_size

\* C17 (as claimed): when the final inner sweep runs with the exit on the
\* top or bottom boundary and is longer than 2 * gap_size (gap_size >= 1),
\* no sown segment on its lane touches either end row.
C17_FinalSweepSownInside ==
    (Returned /\ FinalSweepHasGaps)
        => \A k \in 1 .. Len(sow_flags) :
               (/\ sow_flags[k]
                /\ points_lanes[k][1] = LastPoint(lanes_to_sweep_x)
                /\ points_lanes[k + 1][1] = LastPoint(lanes_to_sweep_x))
                   => /\ points_lanes[k][2] \notin {0, max_lane_idx_y}
                      /\ points_lanes[k + 1][2] \notin {0, max_lane_idx_y}

\* The indices of the segments of pts that lie on lane x.
LaneSegments(pts, x) ==
    {j \in 1 .. (Len(pts) - 1) : pts[j][1] = x /\ pts[j + 1][1] = x}

\* Segments j, j+1, j+2 of pts are a sweep of lane x from y0 to y1 with a
\* gap at either end: unsown, flagged `mid`, unsown.
ThreeSegmentSweep(pts, flags, j, x, y0, y1, gap, mid) ==
    LET d == IF y1 > y0 THEN 1 ELSE -1
    IN /\ Len(pts) >= j + 3
       /\ pts[j] = <<x, y0>>
       /\ pts[j + 1] = <<x, y0 + gap * d>>
       /\ pts[j + 2] = <<x, y1 - gap * d>>
       /\ pts[j + 3] = <<x, y1>>
       /\ flags[j] = FALSE
       /\ flags[j + 1] = mid
       /\ flags[j + 2] = FALSE

\* Sweep k of the returned call is a regular (gap-inserted) inner sweep:
\* every sweep but the last, and the last too when the exit is not on the
\* top or bottom boundary.
RegularSweep(k) ==
    /\ k \in 1 .. Len(lanes_to_sweep_x)
    /\ (k < Len(lanes_to_sweep_x) \/ ex_ln_y \notin {0, max_lane_idx_y})

\* The planner's part of C18: each regular inner sweep longer than twice a
\* gap of at least one lane is exactly three segments on its lane.
PlannerSweepsInThree ==
    (Returned /\ gap_size >= 1 /\ max_lane_idx_y > 2 * gap_size)
        => \A k \in 1 .. Len(lanes_to_sweep_x) :
               RegularSweep(k)
                   => \E j \in 1 .. Len(points_lanes), y0 \in {0, max_lane_idx_y} :
                          /\ LaneSegments(points_lanes, lanes_to_sweep_x[k])
                                 = {j, j + 1, j + 2}
                          /\ ThreeSegmentSweep(points_lanes, sow_flags, j,
                                 lanes_to_sweep_x[k], y0, max_lane_idx_y - y0,
                                 gap_size, TRUE)

\* The latest _commit_partial_vertical_sweep call was longer than twice a gap
\* of at least one lane.
LongSweepCall ==
    /\ sweep_call.made
    /\ sweep_call.gap_size >= 1
    /\ Abs(sweep_call.end_y - sweep_call.start_y) > 2 * sweep_call.gap_size

\* The undirected middle segment of the latest call.
MiddleSegment ==
    LET d == IF sweep_call.end_y > sweep_call.start_y THEN 1 ELSE -1
    IN SegmentOf(<<sweep_call.curr_x, sweep_call.start_y + sweep_call.gap_size * d>>,
                 <<sweep_call.curr_x, sweep_call.end_y - sweep_call.gap_size * d>>)

\* The helper's part of C18, the flag of the middle segment left open.
HelperSweepInThree(mid) ==
    LongSweepCall
        => /\ Len(points_list) = sweep_call.len_before + 3
           /\ ThreeSegmentSweep(points_list, sow_flags_list,
                  sweep_call.len_before, sweep_call.curr_x,
                  sweep_call.start_y, sweep_call.end_y,
                  sweep_call.gap_size, mid)

\* C18 (as claimed): a gap-inserted sweep of lane x from y0 to y1 with
\* |y1 - y0| > 2 * gap_size and gap_size >= 1 commits exactly three segments
\* in order: unsown from y0 to gap_size lanes in, sown from there to
\* gap_size lanes before y1, unsown from there to y1; for every regular
\* inner sweep of the planner and for _commit_partial_vertical_sweep.
C18_ThreeSegmentsAllSown ==
    /\ PlannerSweepsInThree
    /\ HelperSweepInThree(TRUE)

\* C18 (amended): the same three segments, except that the middle segment
\* of _commit_partial_vertical_sweep is flagged sown only when that
\* undirected segment was not in the sown set already; a repeated middle
\* segment is recorded unsown.
C18_ThreeSegments ==
    /\ PlannerSweepsInThree
    /\ HelperSweepInThree(MiddleSegment \notin sweep_call.log_before)

\* C18 witness: the planner has returned two regular sweeps of three
\* segments each, and the helper has swept lane 0 upwards and back down, the
\* second time over a middle segment already sown.
C18_Witness ==
    /\ Returned
    /\ gap_size = 1
    /\ max_lane_idx_y = 3
    /\ Len(lanes_to_sweep_x) >= 2
    /\ RegularSweep(Len(lanes_to_sweep_x))
    /\ LongSweepCall
    /\ MiddleSegment \in sweep_call.log_before
    /\ Len(points_list) = 7
    /\ sow_flags_list = <<FALSE, TRUE, FALSE, FALSE, FALSE, FALSE>>

\* The latest _commit_partial_vertical_sweep call was at most twice the gap
\* long.
ShortSweepCall ==
    /\ sweep_call.made
    /\ Abs(sweep_call.end_y - sweep_call.start_y) <= 2 * sweep_call.gap_size

\* C19: a sweep of length at most 2 * gap_size is committed as exactly one
\* segment from end to end, and as none when its length is 0: sown for a
\* regular inner sweep, unsown for the final inner sweep with the exit on
\* the top or bottom boundary; _commit_partial_vertical_sweep likewise
\* commits one segment, and none for length 0.
C19_ShortSweepOneSegment ==
    /\ (Returned /\ max_lane_idx_y <= 2 * gap_size)
         => \A k \in 1 .. Len(lanes_to_sweep_x) :
               LET segs == LaneSegments(points_lanes, lanes_to_sweep_x[k])
               IN IF max_lane_idx_y = 0 THEN segs = {}
                  ELSE \E j \in 1 .. Len(sow_flags) :
                          /\ segs = {j}
                          /\ {points_lanes[j][2], points_lanes[j + 1][2]}
                                 = {0, max_lane_idx_y}
                          /\ sow_flags[j] = RegularSweep(k)
    /\ ShortSweepCall
         => IF sweep_call.end_y = sweep_call.start_y
            THEN Len(points_list) = sweep_call.len_before
            ELSE /\ Len(points_list) = sweep_call.len_before + 1
                 /\ points_list[sweep_call.len_before]
                        = <<sweep_call.curr_x, sweep_call.start_y>>
                 /\ points_list[sweep_call.len_before + 1]
                        = <<sweep_call.curr_x, sweep_call.end_y>>

\* C19 witness: with two rows between the ends and gap_size 1 the planner
\* has returned a regular sweep and a final sweep towards a bottom exit,
\* one segment each, and the helper has swept lane 0 in one segment.
C19_Witness ==
    /\ Returned
    /\ gap_size = 1
    /\ max_lane_idx_y = 2
    /\ ex_ln_y = 0
    /\ Len(lanes_to_sweep_x) >= 2
    /\ ShortSweepCall
    /\ sweep_call.end_y # sweep_call.start_y
    /\ Len(points_list) = sweep_call.len_before + 1

\* C20: with n_inner_x_sweeps >= 1 the first waypoint has x = max_lane_x - 1
\* when the exit is on lane 0, x = 1 when it is on lane max_lane_x, and
\* otherwise the one of 1 and max_lane_x - 1 that is farther in x from the
\* exit (either of them when they are equally far).
C20_StartLane ==
    (pc # "idle" /\ n_inner_x_sweeps >= 1)
        => LET start_x == points_lanes[1][1]
               mx == max_lane_idx_x
           IN IF ex_ln_x = 0 THEN start_x = mx - 1
              ELSE IF ex_ln_x = mx THEN start_x = 1
              ELSE /\ start_x \in {1, mx - 1}
                   /\ Abs(ex_ln_x - start_x) >= Abs(ex_ln_x - 1)
                   /\ Abs(ex_ln_x - start_x) >= Abs(ex_ln_x - (mx - 1))

\* C20 witness: on a grid five lanes wide with the exit on lane 1 of the
\* bottom row a call with inner sweeps has placed its first waypoint on
\* lane 3.
C20_Witness ==
    /\ pc = "INNER_SWEEPS"
    /\ n_inner_x_sweeps >= 1
    /\ max_lane_idx_x = 4
    /\ exit_point_lanes = <<1, 0>>
    /\ points_lanes[1][1] = 3

\* C21: the y of the first waypoint is max_lane_y when the exit is on the
\* bottom row, 0 when it is on the top row, and for an exit on the left or
\* right side the one of 0 and max_lane_y that is farther from the exit's y
\* (either of them when they are equally far).
C21_StartRow ==
    pc # "idle"
        => LET start_y == points_lanes[1][2]
               my == max_lane_idx_y
           IN IF ex_ln_y = 0 THEN start_y = my
              ELSE IF ex_ln_y = my THEN start_y = 0
              ELSE /\ start_y \in {0, my}
                   /\ Abs(ex_ln_y - start_y) >= Abs(ex_ln_y - 0)
                   /\ Abs(ex_ln_y - start_y) >= Abs(ex_ln_y - my)

\* C21 witness: with the exit on the left side one row above the bottom of
\* a grid four rows deep, a call has placed its first waypoint on the top
\* row.
C21_Witness ==
    /\ pc = "INNER_SWEEPS"
    /\ max_lane_idx_y = 3
    /\ exit_point_lanes = <<0, 1>>
    /\ points_lanes[1][2] = 3

\* The inner-sweep loop has made its last iteration (sweep and turn) and
\* boundary coverage has not begun.
InnerSweepsOver ==
    /\ pc = "INNER_SWEEPS"
    /\ pending = << >>
    /\ lanes_to_sweep_x # << >>
    /\ sweep_i = Len(lanes_to_sweep_x)

\* C22 (as claimed): with the exit on the bottom row the final inner sweep
\* ends at y = 0, and with the exit on the top row at y = max_lane_y, for
\* every number of inner sweeps n_inner_x_sweeps >= 1.
C22_FinalSweepEndsOnExitRow ==
    (InnerSweepsOver /\ ex_ln_y \in {0, max_lane_idx_y})
        => curr_ln_y = ex_ln_y

\* C23: with every inner lane requested and at least two of them
\* (n_inner_x_sweeps = max_lane_x - 1 >= 2) the sweep order is a permutation
\* of the inner lanes 1..max_lane_x - 1 that begins at the start lane, the x
\* of the first waypoint, and each next lane is an inner lane not used so
\* far that is nearest in x to the lane before it.
C23_SweepOrder ==
    (pc # "idle" /\ n_inner_x_sweeps = max_lane_idx_x - 1 /\ n_inner_x_sweeps >= 2)
        => LET order == lanes_to_sweep_x
               inner == 1 .. (max_lane_idx_x - 1)
               Used(k) == {order[j] : j \in 1 .. k}
           IN /\ Len(order) = max_lane_idx_x - 1
              /\ Used(Len(order)) = inner
              /\ order[1] = points_lanes[1][1]
              /\ \A k \in 1 .. (Len(order) - 1) :
                     \A u \in inner \ Used(k) :
                         Abs(order[k + 1] - order[k]) <= Abs(u - order[k])

\* C23 witness: a call over the three inner lanes of a grid five lanes wide
\* with the exit on lane 0 has returned having swept lanes 3, 2, 1 in that
\* order.
C23_Witness ==
    /\ Returned
    /\ max_lane_idx_x = 4
    /\ n_inner_x_sweeps = 3
    /\ ex_ln_x = 0
    /\ lanes_to_sweep_x = <<3, 2, 1>>
    /\ \A x \in 1 .. 3 : LaneSegments(points_lanes, x) # {}

\* The index in pts of the waypoint that ends the last segment on lane x.
SweepEnd(pts, x) ==
    1 + CHOOSE j \in LaneSegments(pts, x) :
            \A i \in LaneSegments(pts, x) : i <= j

\* The segment that follows the sweep of lane x in the returned path is an
\* unsown horizontal move of one lane, towards the exit column when the
\* exit is not on lane x.
TurnsOneLaneTowardsExit(x) ==
    LET j == SweepEnd(points_lanes, x)
    IN /\ j < Len(points_lanes)
       /\ ~sow_flags[j]
       /\ points_lanes[j + 1][2] = points_lanes[j][2]
       /\ Abs(points_lanes[j + 1][1] - x) = 1
       /\ (ex_ln_x # x
             => Abs(ex_ln_x - points_lanes[j + 1][1]) < Abs(ex_ln_x - x))

\* C24 (as claimed): after the final inner sweep, for every valid exit, the
\* next committed segment is an unsown horizontal move of exactly one lane
\* towards the exit's side.
C24_TurnAfterFinalSweep ==
    (Returned /\ lanes_to_sweep_x # << >> /\ max_lane_idx_y >= 1)
        => TurnsOneLaneTowardsExit(LastPoint(lanes_to_sweep_x))

\* The path pts reflected left-right.
MirroredPath(pts, mx) ==
    [k \in 1 .. Len(pts) |-> <<mx - pts[k][1], pts[k][2]>>]

\* Both calls have returned and the second was made with the exit
\* reflected.
MirroredPairReturned ==
    /\ Returned
    /\ Len(results) = 2
    /\ arg_change = "mirror"

SecondIsMirrorOfFirst ==
    /\ results[2].points_lanes
           = MirroredPath(results[1].points_lanes, max_lane_idx_x)
    /\ results[2].sow_flags = results[1].sow_flags

\* C25 (as claimed): for every valid input, reflecting the exit left-right
\* with all other arguments equal makes the planner return the left-right
\* reflection of the original path with identical sow flags.
C25_MirrorSymmetryAll ==
    MirroredPairReturned => SecondIsMirrorOfFirst

\* C25 (amended): the same for every exit that is not on the centre lane
\* (2 * ex # max_lane_x); an exit on the centre lane is its own reflection
\* and the path returned for it is not.
C25_MirrorSymmetry ==
    (MirroredPairReturned /\ 2 * ex_ln_x # max_lane_idx_x)
        => SecondIsMirrorOfFirst

\* C25 witness: two calls with inner sweeps and several rows, the exit on
\* lane 1 of the bottom row first and on lane 3 then, have returned paths
\* that are reflections of each other and not equal.
C25_Witness ==
    /\ MirroredPairReturned
    /\ max_lane_idx_x = 4
    /\ max_lane_idx_y >= 2
    /\ n_inner_x_sweeps = 3
    /\ exit_point_lanes = <<3, 0>>
    /\ SecondIsMirrorOfFirst
    /\ results[2].points_lanes # results[1].points_lanes

\* C28: the planner's output does not depend on is_corner_exit: two calls
\* that differ in is_corner_exit only return identical points_lanes and
\* identical sow_flags.
C28_CornerFlagIgnored ==
    (Returned /\ Len(results) = 2 /\ arg_change = "corner")
        => /\ results[2].points_lanes = results[1].points_lanes
           /\ results[2].sow_flags = results[1].sow_flags

\* C28 witness: a call with is_corner_exit set for an exit that is no corner
\* and a call with it cleared have both returned the same path of inner
\* sweeps and boundary coverage.
C28_Witness ==
    /\ Returned
    /\ Len(results) = 2
    /\ arg_change = "corner"
    /\ ~is_corner_exit
    /\ exit_point_lanes = <<1, 0>>
    /\ n_inner_x_sweeps >= 2
    /\ max_lane_idx_y >= 2
    /\ results[2] = results[1]
    /\ Len(results[2].points_lanes) >= 8

\* The point <<x, y>> lies on the boundary with number b and its free
\* coordinate is a lane of that boundary.
OnChosenBoundary(b, x, y) ==
    \/ b = 1 /\ y = max_lane_idx_y /\ x \in 0 .. max_lane_idx_x
    \/ b = 2 /\ y = 0 /\ x \in 0 .. max_lane_idx_x
    \/ b = 3 /\ x = 0 /\ y \in 0 .. max_lane_idx_y
    \/ b = 4 /\ x = max_lane_idx_x /\ y \in 0 .. max_lane_idx_y

\* C26: whatever the user types, get_user_defined_exit_lanes returns only a
\* point on the chosen boundary whose free coordinate lies in that
\* boundary's lane range; while the typed coordinate is not such a lane the
\* resolver does not return and stays at the lane prompt.
C26_ResolverInRange ==
    /\ [](pc = "resolved"
            => /\ exit_point_lanes = <<ex_l, ey_l>>
               /\ OnChosenBoundary(b_choice, ex_l, ey_l))
    /\ [][pc = "enter_lane"
            => /\ pc' \in {"enter_lane", "resolved"}
               /\ b_choice' = b_choice
               /\ pc' = "resolved" <=> OnChosenBoundary(b_choice, ex_l', ey_l')]_vars

\* C26 witness: the resolver has returned a lane of the right boundary
\* after an answer beyond the last row had been refused.
C26_Witness ==
    /\ pc = "resolved"
    /\ b_choice = 4
    /\ max_lane_idx_y = 2
    /\ exit_point_lanes = <<max_lane_idx_x, 1>>

\* Segment i of the path is sown, vertical and on an inner lane.
SownInnerVertical(i) ==
    /\ sow_flags[i]
    /\ InnerVertical(points_lanes[i], points_lanes[i + 1])

\* Segment i is the first such segment on its lane.
FirstOnItsLane(i) ==
    /\ SownInnerVertical(i)
    /\ \A j \in 1 .. (i - 1) :
           SownInnerVertical(j) => points_lanes[j][1] # points_lanes[i][1]

\* The number of distinct inner lanes with a sown vertical segment among
\* the first i segments.
LanesSownUpTo(i) ==
    Cardinality({points_lanes[j][1] : j \in {h \in 1 .. i : SownInnerVertical(h)}})

\* C27 (as claimed): the classifier gives the first sown vertical segment on
\* the k-th distinct inner lane met in path order exactly the label
\* VRow{k}, k counted from 1, and no other segment of that lane a VRow
\* label.
C27_VRowLabels ==
    pc = "analyzed"
        => \A i \in 1 .. Len(row_sequence) :
               IF FirstOnItsLane(i)
               THEN row_sequence[i].label = "VRow" \o ToString(LanesSownUpTo(i))
               ELSE \A k \in 1 .. max_lane_idx_x :
                        row_sequence[i].label \notin
                            {"VRow" \o ToString(k),
                             "VRow" \o ToString(k) \o "_Optimized"}

\* The sown segments of the returned path that lie on lane x.
SownLaneSegments(x) ==
    {j \in LaneSegments(points_lanes, x) : sow_flags[j]}

\* C29: for gap_size >= 1, max_lane_y > 2 * gap_size and every inner lane
\* requested (n_inner_x_sweeps = max_lane_x - 1 >= 1) the returned path has
\* exactly one sown vertical segment on each inner lane 1..max_lane_x - 1.
C29_OneSownSegmentPerInnerLane ==
    (/\ Returned
     /\ gap_size >= 1
     /\ max_lane_idx_y > 2 * gap_size
     /\ n_inner_x_sweeps = max_lane_idx_x - 1
     /\ n_inner_x_sweeps >= 1)
        => \A x \in 1 .. (max_lane_idx_x - 1) :
               Cardinality(SownLaneSegments(x)) = 1

\* C29 witness: a call over three inner lanes and four rows with gap 1 and
\* the exit on the top row has returned; lanes 1, 2 and 3 carry one sown
\* segment each, the one of the final sweep included.
C29_Witness ==
    /\ Returned
    /\ gap_size = 1
    /\ max_lane_idx_y = 3
    /\ max_lane_idx_x = 4
    /\ n_inner_x_sweeps = 3
    /\ ex_ln_y = 3
    /\ \A x \in 1 .. 3 : Cardinality(SownLaneSegments(x)) = 1

\* C30: for every exit on the field boundary the boundary-coverage phase
\* itself ends on the exit point, so the exit-approach step finds nothing to
\* do: the unsown FinalExitPosition commit is never issued and the path is
\* returned as boundary coverage left it.
C30_FallbackNeverRuns ==
    /\ (pc = "BOUNDARY_COVERAGE" /\ pending = << >>)
          => LastPoint(points_lanes) = exit_point_lanes
    /\ pc = "EXIT_APPROACH" => pending = << >>
    /\ \A k \in 1 .. Len(pending) : pending[k].ctx # "FinalExitPosition"

\* C30 witness: for an exit on the right side, strictly between the corners,
\* boundary coverage has ended on the exit and the exit-approach step has
\* issued no commit.
C30_Witness ==
    /\ pc = "EXIT_APPROACH"
    /\ pending = << >>
    /\ ex_ln_x = max_lane_idx_x
    /\ ex_ln_y \notin {0, max_lane_idx_y}
    /\ Len(points_lanes) >= 6
    /\ LastPoint(points_lanes) = exit_point_lanes

====
